---- MODULE Spec2Model ----
(***************************************************************************)
(* Model of fetch_treasury_securities.py: the two fetchers, the assembler  *)
(* get_treasury_securities_portfolio that falls back from the primary to   *)
(* the alternative endpoint, and the __main__ driver that writes the CSV   *)
(* file and prints the summary.                                            *)
(*                                                                         *)
(* The remote API is the environment: each requests.get either raises a    *)
(* transport error or returns a response (status, body), chosen from small *)
(* sets.  The library calls are modelled by what they do: response.json()  *)
(* raises on a body that is not JSON, pd.DataFrame builds one row per      *)
(* array element, DataFrame.describe() raises on a frame without columns.  *)
(***************************************************************************)
EXTENDS Integers, Sequences, FiniteSets, TLC

VARIABLES
    pc,            \* position of the single thread of control
    requests,      \* endpoints on which requests.get was called, in order
    primaryResp,   \* outcome of requests.get at line 35
    fallbackResp,  \* outcome of requests.get at line 69
    ret,           \* value returned by the fetcher that returned last
    df,            \* df of the assembler / securities_df of the driver
    source,        \* the fetcher whose result df holds
    exc,           \* exception being handled or propagating
    console,       \* diagnostics printed so far
    csvFile,       \* contents of treasury_securities_raw_data.csv
    csvWrites      \* number of to_csv calls of this run

vars == <<pc, requests, primaryResp, fallbackResp, ret, df, source, exc,
          console, csvFile, csvWrites>>

----------------------------------------------------------------------------
(* Bounds and constants *)

\* longest 'data' array the environment answers with
MaxRows == 2

\* the status the fetchers accept (lines 37 and 71)
HTTP_OK == 200

StatusCodes == {HTTP_OK, 404, 500}

\* keys and values of the flat JSON objects of a 'data' array
Keys == {"record_date", "avg_interest_rate_amt"}
Vals == {"2025-01-01", "2025-02-01", "4.5"}

\* the members a flat object can hold: dates under record_date, a rate under
\* avg_interest_rate_amt
Members ==
    {m \in Keys \X Vals : (m[1] = "avg_interest_rate_amt") <=> (m[2] = "4.5")}

----------------------------------------------------------------------------
(* JSON bodies *)

\* the sequences over S of length at most n
SeqsUpTo(S, n) == UNION {[1..k -> S] : k \in 0..n}

\* a flat JSON object: its members in document order, keys distinct
JsonObjects ==
    {o \in SeqsUpTo(Members, Cardinality(Keys)) :
        \A i, j \in 1..Len(o) : i # j => o[i][1] # o[j][1]}

ObjKeys(o) == {o[i][1] : i \in 1..Len(o)}

ObjGet(o, k) == LET i == CHOOSE i \in 1..Len(o) : o[i][1] = k IN o[i][2]

(* Body kinds:
     invalid    the text is not JSON                 (response.json() raises)
     nonobject  JSON, but the top level is no object (a list, a number)
     nodata     an object without a 'data' key, such as {"foo": []}
     null       an object with "data": null
     scalar     an object with "data": <number>
     array      an object with "data": [ flat objects ]                     *)
BodyKinds == {"invalid", "nonobject", "nodata", "null", "scalar", "array"}

Bodies ==
    [kind : BodyKinds \ {"array"}, data : {<<>>}]
    \cup [kind : {"array"}, data : SeqsUpTo(JsonObjects, MaxRows)]

\* error pages of a non-200 answer: the body is never read by the fetchers
ErrorBodies == {b \in Bodies : b.kind \in {"invalid", "nodata"}}

NoBody == [kind |-> "invalid", data |-> <<>>]

\* what requests.get can do: raise a transport error, or return a response
NoResponse == [outcome |-> "none", status |-> 0, body |-> NoBody]
TransportError == [outcome |-> "error", status |-> 0, body |-> NoBody]
Responses ==
    [outcome : {"response"}, status : {HTTP_OK}, body : Bodies]
    \cup [outcome : {"response"}, status : StatusCodes \ {HTTP_OK}, body : ErrorBodies]
GetOutcomes == {TransportError} \cup Responses

----------------------------------------------------------------------------
(* pd.DataFrame *)

NaN == "NaN"

\* where key k is first encountered in data: objects in array order,
\* members in document order
FirstSeen(data, k) ==
    LET i == CHOOSE i \in 1..Len(data) :
                 /\ k \in ObjKeys(data[i])
                 /\ \A h \in 1..(i - 1) : k \notin ObjKeys(data[h])
        j == CHOOSE j \in 1..Len(data[i]) : data[i][j][1] = k
    IN  i * (Cardinality(Keys) + 1) + j

\* the union of the objects' keys, in the order first encountered
Columns(data) ==
    LET ks == UNION {ObjKeys(data[i]) : i \in 1..Len(data)}
    IN  [c \in 1..Cardinality(ks) |->
            CHOOSE k \in ks :
                Cardinality({h \in ks : FirstSeen(data, h) < FirstSeen(data, k)}) = c - 1]

RowOf(cols, o) ==
    [c \in 1..Len(cols) |-> IF cols[c] \in ObjKeys(o) THEN ObjGet(o, cols[c]) ELSE NaN]

\* pd.DataFrame(list of dicts): one row per element, in order
DataFrame(data) ==
    LET cols == Columns(data)
    IN  [columns |-> cols, rows |-> [i \in 1..Len(data) |-> RowOf(cols, data[i])]]

EmptyDataFrame == [columns |-> <<>>, rows |-> <<>>]

NoFrame == [columns |-> <<"<none>">>, rows |-> <<>>]

NRows(d) == Len(d.rows)

----------------------------------------------------------------------------
(* Exceptions.  Every type below derives from Exception. *)

NoExc == [type |-> "none", at |-> "none"]

ExcTypes == {"Exception", "ConnectionError", "JSONDecodeError",
             "AttributeError", "ValueError"}

Raise(t) == [raised |-> TRUE, type |-> t, value |-> NoFrame]
Return(d) == [raised |-> FALSE, type |-> "none", value |-> d]

\* pd.DataFrame(x) for the value x found under 'data'
PdDataFrame(body) ==
    CASE body.kind = "array"  -> Return(DataFrame(body.data))
      [] body.kind = "null"   -> Return(EmptyDataFrame)
      [] body.kind = "scalar" -> Raise("ValueError")
      [] OTHER                -> Return(EmptyDataFrame)

\* fetch_treasury_securities with the 'data' check left out
PrimaryParseNoDataCheck(resp) ==
    IF resp.status # HTTP_OK THEN Raise("Exception")
    ELSE IF resp.body.kind = "invalid" THEN Raise("JSONDecodeError")
    ELSE IF resp.body.kind = "nonobject" THEN Raise("Exception")
    ELSE PdDataFrame(resp.body)

\* fetch_treasury_securities, lines 37-45, on the response of line 35
PrimaryParse(resp) ==
    IF resp.status # HTTP_OK THEN Raise("Exception")
    ELSE IF resp.body.kind = "invalid" THEN Raise("JSONDecodeError")
    ELSE IF resp.body.kind \in {"nonobject", "nodata"} THEN Raise("Exception")
    ELSE PdDataFrame(resp.body)

\* fetch_securities_from_treasurydirect with the primary's 'data' check
FallbackParseStrict(resp) == PrimaryParse(resp)

\* fetch_securities_from_treasurydirect with the status check left out
FallbackParseNoStatus(resp) ==
    IF resp.body.kind = "invalid" THEN Raise("JSONDecodeError")
    ELSE IF resp.body.kind = "nonobject" THEN Raise("AttributeError")
    ELSE PdDataFrame(resp.body)

\* fetch_securities_from_treasurydirect, lines 71-75, on the response of line 69
FallbackParse(resp) ==
    IF resp.status # HTTP_OK THEN Raise("Exception")
    ELSE IF resp.body.kind = "invalid" THEN Raise("JSONDecodeError")
    ELSE IF resp.body.kind = "nonobject" THEN Raise("AttributeError")
    ELSE PdDataFrame(resp.body)

\* a handler that lets transport errors through
CaughtUnlessTransport(e) == e.type # "ConnectionError"

\* line 88: 'except Exception' catches every exception type of the model
Caught(e) == e.type \in ExcTypes

\* an assembler that tries the primary endpoint again
RetryPrimary == "primary_get"

\* where the handler of lines 88-91 goes next: the fallback fetch
AfterPrimaryFailure == "fallback_get"

\* an assembler that consults the alternative source as well
AlwaysFallback == "fallback_get"

\* where control goes when line 86 returned: lines 87, 94, then the driver
AfterPrimarySuccess == "driver_report"

\* an assembler that swallows the fallback's exception and returns no rows
SwallowFallbackFailure == "driver_report"

\* where an exception of line 91 goes: out of the assembler, to line 129
AfterFallbackFailure == "driver_except"

\* an assembler that keeps the first record only
FirstRowOnly(r) ==
    IF r.rows = <<>> THEN r ELSE [columns |-> r.columns, rows |-> <<r.rows[1]>>]

\* lines 86/91 and 94: df is the fetcher's return value, returned as it is
AssemblerResult(r) == r

\* line 127: DataFrame.describe() raises ValueError on a frame without columns
DescribeRaises(d) == Len(d.columns) = 0

\* line 120: to_csv(index=False): the header, then one line per row, NaN as ""
ToCsv(d) ==
    [header |-> d.columns,
     lines  |-> [i \in 1..NRows(d) |->
                   [c \in 1..Len(d.columns) |->
                       IF d.rows[i][c] = NaN THEN "" ELSE d.rows[i][c]]]]

NoFile == [header |-> <<"<absent>">>, lines |-> <<>>]
StaleFile == [header |-> <<"<previous run>">>, lines |-> <<>>]

----------------------------------------------------------------------------
(* The run *)

Init ==
    /\ pc = "primary_get"
    /\ requests = <<>>
    /\ primaryResp = NoResponse
    /\ fallbackResp = NoResponse
    /\ ret = NoFrame
    /\ df = NoFrame
    /\ source = "none"
    /\ exc = NoExc
    /\ console = <<>>
    /\ csvFile \in {NoFile, StaleFile}
    /\ csvWrites = 0

\* line 35: requests.get on the primary endpoint
PrimaryGet ==
    /\ pc = "primary_get"
    /\ \E o \in GetOutcomes :
          /\ primaryResp' = o
          /\ IF o.outcome = "error"
             THEN /\ exc' = [type |-> "ConnectionError", at |-> "primary"]
                  /\ pc' = "primary_raised"
             ELSE /\ exc' = exc
                  /\ pc' = "primary_check"
    /\ requests' = Append(requests, "primary")
    /\ console' = Append(console, "fetching_primary")
    /\ UNCHANGED <<fallbackResp, ret, df, source, csvFile, csvWrites>>

\* lines 37-45: the status check, json(), the 'data' check, pd.DataFrame
PrimaryCheck ==
    /\ pc = "primary_check"
    /\ LET r == PrimaryParse(primaryResp)
       IN  IF r.raised
           THEN /\ exc' = [type |-> r.type, at |-> "primary"]
                /\ pc' = "primary_raised"
                /\ ret' = ret
           ELSE /\ exc' = exc
                /\ pc' = "primary_returned"
                /\ ret' = r.value
    /\ UNCHANGED <<requests, primaryResp, fallbackResp, df, source, console,
                   csvFile, csvWrites>>

\* lines 86-87 and 94: df is assigned, the row count printed, df returned
AssemblerPrimaryOk ==
    /\ pc = "primary_returned"
    /\ df' = AssemblerResult(ret)
    /\ source' = "primary"
    /\ console' = Append(console, "retrieved_primary")
    /\ pc' = AfterPrimarySuccess
    /\ UNCHANGED <<requests, primaryResp, fallbackResp, ret, exc, csvFile, csvWrites>>

\* lines 88-90: the handler prints the failure and turns to the alternative;
\* an exception it does not catch leaves the assembler for line 129
AssemblerExcept ==
    /\ pc = "primary_raised"
    /\ IF Caught(exc)
       THEN /\ console' = console \o <<"primary_failed", "trying_alternative">>
            /\ pc' = AfterPrimaryFailure
       ELSE /\ console' = console
            /\ pc' = "driver_except"
    /\ UNCHANGED <<requests, primaryResp, fallbackResp, ret, df, source, exc,
                   csvFile, csvWrites>>

\* line 69: requests.get on the alternative endpoint
FallbackGet ==
    /\ pc = "fallback_get"
    /\ \E o \in GetOutcomes :
          /\ fallbackResp' = o
          /\ IF o.outcome = "error"
             THEN /\ exc' = [type |-> "ConnectionError", at |-> "fallback"]
                  /\ pc' = AfterFallbackFailure
             ELSE /\ exc' = exc
                  /\ pc' = "fallback_check"
    /\ requests' = Append(requests, "fallback")
    /\ console' = Append(console, "fetching_alternative")
    /\ UNCHANGED <<primaryResp, ret, df, source, csvFile, csvWrites>>

\* lines 71-75: the status check, json(), data.get('data', []), pd.DataFrame
FallbackCheck ==
    /\ pc = "fallback_check"
    /\ LET r == FallbackParse(fallbackResp)
       IN  IF r.raised
           THEN /\ exc' = [type |-> r.type, at |-> "fallback"]
                /\ pc' = AfterFallbackFailure
                /\ ret' = ret
           ELSE /\ exc' = exc
                /\ pc' = "fallback_returned"
                /\ ret' = r.value
    /\ UNCHANGED <<requests, primaryResp, fallbackResp, df, source, console,
                   csvFile, csvWrites>>

\* lines 91-92 and 94: df is assigned in the handler, which then ends
AssemblerFallbackOk ==
    /\ pc = "fallback_returned"
    /\ df' = AssemblerResult(ret)
    /\ source' = "fallback"
    /\ exc' = NoExc
    /\ console' = Append(console, "retrieved_alternative")
    /\ pc' = "driver_report"
    /\ UNCHANGED <<requests, primaryResp, fallbackResp, ret, csvFile, csvWrites>>

\* lines 110-116: the driver prints the row count, the columns, the preview
DriverReport ==
    /\ pc = "driver_report"
    /\ console' = Append(console, "data_retrieved")
    /\ pc' = "write_csv"
    /\ UNCHANGED <<requests, primaryResp, fallbackResp, ret, df, source, exc,
                   csvFile, csvWrites>>

\* lines 119-121: the file is overwritten
WriteCsv ==
    /\ pc = "write_csv"
    /\ csvFile' = ToCsv(df)
    /\ csvWrites' = csvWrites + 1
    /\ console' = Append(console, "saved")
    /\ pc' = "describe"
    /\ UNCHANGED <<requests, primaryResp, fallbackResp, ret, df, source, exc>>

\* lines 124-127: the summary
Describe ==
    /\ pc = "describe"
    /\ IF DescribeRaises(df)
       THEN /\ exc' = [type |-> "ValueError", at |-> "driver"]
            /\ pc' = "driver_except"
            /\ console' = Append(console, "summary_header")
       ELSE /\ exc' = exc
            /\ pc' = "script_complete"
            /\ console' = console \o <<"summary_header", "summary">>
    /\ UNCHANGED <<requests, primaryResp, fallbackResp, ret, df, source,
                   csvFile, csvWrites>>

\* lines 129-133: the driver prints the error and re-raises it
DriverExcept ==
    /\ pc = "driver_except"
    /\ console' = Append(console, "error")
    /\ pc' = "exit_error"
    /\ UNCHANGED <<requests, primaryResp, fallbackResp, ret, df, source, exc,
                   csvFile, csvWrites>>

\* lines 136-138: the closing banner, then the interpreter exits normally
ScriptComplete ==
    /\ pc = "script_complete"
    /\ console' = Append(console, "script_complete")
    /\ pc' = "exit_ok"
    /\ UNCHANGED <<requests, primaryResp, fallbackResp, ret, df, source, exc,
                   csvFile, csvWrites>>

Next ==
    \/ PrimaryGet
    \/ PrimaryCheck
    \/ AssemblerPrimaryOk
    \/ AssemblerExcept
    \/ FallbackGet
    \/ FallbackCheck
    \/ AssemblerFallbackOk
    \/ DriverReport
    \/ WriteCsv
    \/ Describe
    \/ DriverExcept
    \/ ScriptComplete

Spec == Init /\ [][Next]_vars

\* each statement of the single thread runs once control reaches it: every
\* HTTP call returns or raises
FairSpec == Spec /\ WF_vars(Next)

----------------------------------------------------------------------------
(* Vocabulary of the properties *)

Terminated == pc \in {"exit_ok", "exit_error"}

Answered(resp) == resp.outcome = "response"

\* fetch_treasury_securities has returned or raised
PrimaryDone == primaryResp.outcome # "none" /\ pc # "primary_check"

\* fetch_securities_from_treasurydirect has returned or raised
FallbackDone == fallbackResp.outcome # "none" /\ pc # "fallback_check"

PrimaryFailed ==
    \/ primaryResp.outcome = "error"
    \/ Answered(primaryResp) /\ PrimaryParse(primaryResp).raised

FallbackFailed ==
    \/ fallbackResp.outcome = "error"
    \/ Answered(fallbackResp) /\ FallbackParse(fallbackResp).raised

CountOf(e) == Cardinality({i \in 1..Len(requests) : requests[i] = e})

\* frame d holds exactly the objects of data: one row each, in array order,
\* its columns the objects' keys, every cell the object's value verbatim
FrameMatches(d, data) ==
    /\ NRows(d) = Len(data)
    /\ {d.columns[c] : c \in 1..Len(d.columns)} = UNION {ObjKeys(data[i]) : i \in 1..Len(data)}
    /\ \A c1, c2 \in 1..Len(d.columns) : c1 # c2 => d.columns[c1] # d.columns[c2]
    /\ \A i \in 1..NRows(d) :
          /\ Len(d.rows[i]) = Len(d.columns)
          /\ \A c \in 1..Len(d.columns) :
                IF d.columns[c] \in ObjKeys(data[i])
                THEN d.rows[i][c] = ObjGet(data[i], d.columns[c])
                ELSE d.rows[i][c] = NaN

\* the three states of the assembler, read off the position in lines 85-94
AssemblerState ==
    IF pc \in {"primary_get", "primary_check"} THEN "TryingPrimary"
    ELSE IF pc \in {"primary_raised", "fallback_get", "fallback_check"} THEN "TryingFallback"
    ELSE "Done"

----------------------------------------------------------------------------
(* C1: when the primary endpoint answers with a non-200 status, the primary
   endpoint is requested exactly once and never again, and the fallback
   endpoint is requested exactly once, after the primary request. *)
C1_FallbackOnceAfterNon200 ==
    (Answered(primaryResp) /\ primaryResp.status # HTTP_OK) =>
        /\ CountOf("primary") = 1
        /\ CountOf("fallback") <= 1
        /\ requests[1] = "primary"
        /\ pc \notin {"primary_check", "primary_raised", "fallback_get"}
              => requests = <<"primary", "fallback">>

C1_Witness ==
    /\ Terminated
    /\ Answered(primaryResp) /\ primaryResp.status = 404
    /\ requests = <<"primary", "fallback">>

(* C2: a primary answer of status 200 whose JSON object has no 'data' key
   makes fetch_treasury_securities raise; the assembler then calls the
   fallback fetcher, and the result is never attributed to the primary. *)
C2_MissingDataKeyIsPrimaryFailure ==
    (Answered(primaryResp) /\ primaryResp.status = HTTP_OK
        /\ primaryResp.body.kind = "nodata" /\ PrimaryDone) =>
        /\ source # "primary"
        /\ pc = "primary_raised" => exc = [type |-> "Exception", at |-> "primary"]
        /\ \/ pc \in {"primary_raised", "fallback_get"}
           \/ requests = <<"primary", "fallback">>

C2_Witness ==
    /\ Answered(primaryResp) /\ primaryResp.status = HTTP_OK
    /\ primaryResp.body.kind = "nodata"
    /\ source = "fallback"
    /\ Terminated

(* C3: a fallback answer whose JSON object has no 'data' key makes
   fetch_securities_from_treasurydirect return an empty frame, without an
   error, when the status is 200; it raises only when the status is not 200. *)
C3_FallbackMissingDataKeyIsEmpty ==
    (Answered(fallbackResp) /\ fallbackResp.body.kind = "nodata" /\ FallbackDone) =>
        IF fallbackResp.status = HTTP_OK
        THEN /\ exc.at # "fallback"
             /\ ret = EmptyDataFrame
             /\ pc # "fallback_returned" => (source = "fallback" /\ df = EmptyDataFrame)
        ELSE /\ exc = [type |-> "Exception", at |-> "fallback"]
             /\ source = "none"

C3_Witness ==
    /\ Answered(fallbackResp) /\ fallbackResp.status = HTTP_OK
    /\ fallbackResp.body.kind = "nodata"
    /\ source = "fallback"
    /\ NRows(df) = 0

(* C4: when both endpoints answer with a non-200 status the run ends in the
   error state with the fallback's error re-raised, and the CSV file is
   never written. *)
C4_BothFailNoFile ==
    (Answered(primaryResp) /\ primaryResp.status # HTTP_OK
        /\ Answered(fallbackResp) /\ fallbackResp.status # HTTP_OK /\ FallbackDone) =>
        /\ pc \in {"driver_except", "exit_error"}
        /\ exc = [type |-> "Exception", at |-> "fallback"]
        /\ csvWrites = 0
        /\ csvFile \in {NoFile, StaleFile}

C4_Witness ==
    /\ pc = "exit_error"
    /\ Answered(primaryResp) /\ primaryResp.status = 404
    /\ Answered(fallbackResp) /\ fallbackResp.status = 500
    /\ csvWrites = 0

(* C5: a primary answer of status 200 with a 'data' array of N objects makes
   fetch_treasury_securities return N records in array order whose columns
   are the objects' keys, and the assembler returns that frame unchanged. *)
C5_PrimaryRowsMatchData ==
    (Answered(primaryResp) /\ primaryResp.status = HTTP_OK
        /\ primaryResp.body.kind = "array" /\ PrimaryDone) =>
        /\ FrameMatches(ret, primaryResp.body.data)
        /\ pc # "primary_returned" =>
              /\ source = "primary"
              /\ df = ret
              /\ FrameMatches(df, primaryResp.body.data)

C5_Witness ==
    /\ source = "primary"
    /\ Answered(primaryResp) /\ primaryResp.body.kind = "array"
    /\ Len(primaryResp.body.data) = MaxRows
    /\ NRows(df) = MaxRows
    /\ Len(df.columns) = Cardinality(Keys)
    /\ \E c \in 1..Len(df.columns) : df.rows[1][c] = NaN

C5_WitnessEmpty ==
    /\ source = "primary"
    /\ Answered(primaryResp) /\ primaryResp.body.kind = "array"
    /\ primaryResp.body.data = <<>>
    /\ df = EmptyDataFrame

(* C6: the fallback endpoint is requested only after the primary fetch has
   failed: when the primary fetch succeeds no fallback request is made, and
   the returned frame is the result of exactly one of the two fetchers. *)
C6_FallbackOnlyAfterPrimaryFailure ==
    /\ (PrimaryDone /\ ~PrimaryFailed) => (requests = <<"primary">> /\ fallbackResp = NoResponse)
    /\ CountOf("fallback") > 0 => (requests[1] = "primary" /\ PrimaryFailed)
    /\ source = "primary" =>
          (fallbackResp = NoResponse /\ df = PrimaryParse(primaryResp).value)
    /\ source = "fallback" =>
          (PrimaryFailed /\ df = FallbackParse(fallbackResp).value)

C6_Witness ==
    /\ Terminated
    /\ source = "primary"
    /\ NRows(df) > 0
    /\ requests = <<"primary">>

(* C7: the assembler answers every error of the primary fetcher by calling
   the fallback fetcher, and never recovers from an error of the fallback
   fetcher: that error reaches the driver, which re-raises it, and the run
   ends in failure. *)
C7_RecoverPrimaryOnly ==
    /\ (PrimaryDone /\ PrimaryFailed /\ pc # "primary_raised") =>
          (pc = "fallback_get" \/ requests = <<"primary", "fallback">>)
    /\ (FallbackDone /\ FallbackFailed) =>
          /\ exc.at = "fallback"
          /\ pc \in {"driver_except", "exit_error"}
          /\ source = "none"
          /\ csvWrites = 0

C7_Witness ==
    /\ pc = "exit_error"
    /\ primaryResp.outcome = "error"
    /\ Answered(fallbackResp) /\ fallbackResp.body.kind = "nonobject"
    /\ exc = [type |-> "AttributeError", at |-> "fallback"]

C7_WitnessRecovered ==
    /\ pc = "exit_ok"
    /\ Answered(primaryResp) /\ primaryResp.body.kind = "scalar"
    /\ source = "fallback"

(* C8, as stated: a transport error of either requests.get ends the run in
   failure at that call, and no further fetch is attempted. *)
C8_TransportErrorEndsRun ==
    /\ primaryResp.outcome = "error" =>
          (requests = <<"primary">> /\ pc \in {"primary_raised", "driver_except", "exit_error"})
    /\ fallbackResp.outcome = "error" =>
          (requests = <<"primary", "fallback">> /\ pc \in {"driver_except", "exit_error"})

(* C8, amended: a transport error of the fallback's requests.get ends the run
   in failure at that call, with no further fetch and no file; a transport
   error of the primary's requests.get is caught by the assembler, which
   then requests the fallback endpoint once. *)
C8_TransportErrorAmended ==
    /\ primaryResp.outcome = "error" =>
          /\ CountOf("primary") = 1
          /\ \/ pc \in {"primary_raised", "fallback_get"}
             \/ requests = <<"primary", "fallback">>
    /\ fallbackResp.outcome = "error" =>
          /\ requests = <<"primary", "fallback">>
          /\ pc \in {"driver_except", "exit_error"}
          /\ exc = [type |-> "ConnectionError", at |-> "fallback"]
          /\ csvWrites = 0

C8_Witness ==
    /\ primaryResp.outcome = "error"
    /\ fallbackResp.outcome = "error"
    /\ pc = "exit_error"

C8_WitnessRecovered ==
    /\ primaryResp.outcome = "error"
    /\ source = "fallback"
    /\ pc = "exit_ok"

(* C9: the assembler moves TryingPrimary -> Done on primary success,
   TryingPrimary -> TryingFallback on primary failure, TryingFallback -> Done,
   and in no other way; no state is entered again once left; a run issues
   at most one request per endpoint; and every run reaches Done. *)
C9_Step ==
    LET s == AssemblerState
        t == AssemblerState'
    IN  /\ s = "TryingPrimary" =>
              \/ t = "TryingPrimary"
              \/ t = "Done" /\ pc' = "primary_returned" /\ ~PrimaryFailed'
              \/ t = "TryingFallback" /\ pc' = "primary_raised"
                    /\ exc'.at = "primary" /\ PrimaryFailed'
        /\ s = "TryingFallback" => t \in {"TryingFallback", "Done"}
        /\ s = "Done" => t = "Done"
        /\ s = "Done" => requests' = requests

C9_AtMostOnePerEndpoint ==
    /\ Len(requests) <= 2
    /\ CountOf("primary") <= 1
    /\ CountOf("fallback") <= 1

C9_ThreeStateMachine ==
    /\ [][C9_Step]_vars
    /\ []C9_AtMostOnePerEndpoint
    /\ <>(AssemblerState = "Done")

C9_Witness ==
    /\ AssemblerState = "Done"
    /\ requests = <<"primary", "fallback">>
    /\ Terminated

(* C10, as stated: a run that ends in the error state has not written the
   CSV file; whenever the assembler returned a frame, an empty one included,
   the file is written exactly once and the run ends in success. *)
C10_ErrorMeansNoFile ==
    /\ pc = "exit_error" => csvWrites = 0
    /\ (Terminated /\ source # "none") => (csvWrites = 1 /\ pc = "exit_ok")

====
